---- MODULE Spec2Model ----
(***************************************************************************)
(* Model of the provider-facing service of the fashion photoshoot studio:  *)
(* analyzeGarment, the generatePhotoshoot variants and editImage, with     *)
(* their retry loops and error classification.  One operation runs at a    *)
(* time; every provider call is a suspension point at which the provider   *)
(* (the environment) answers with an image, an image-less response, a text *)
(* or an error.                                                            *)
(***************************************************************************)
EXTENDS Integers, Sequences, FiniteSets, Bags, TLC

\* ---------------------------------------------------------------- bounds
MaxPoses == 3
\* Garments uploaded during one session.
MaxGarments == 2

\* ------------------------------------------------------ program constants
maxAttempts == 2
AnalyzeRetryLimit == 3
EditRetryLimit == 2
FrameDelayMs == 2000
AnalyzeBaseDelayMs == 1000
DAILY_LIMIT == 5

\* ------------------------------------------------------------ value space
None == [kind |-> "none"]
PoseIds == {"front", "side"}
\* The provider can render a pose in two distinguishable ways; the code
\* never inspects the image bytes, so two values cover every comparison.
\* An inline image part always carries non-empty data.
Variations == {"a", "b"}
PoseLists == UNION {[1..n -> PoseIds] : n \in 0..MaxPoses}

\* A string handed to fileToGenerativePart: a data URL has a prefix and a
\* comma before the payload, a raw base64 string has neither.
DataUrl(mime, b64) == [prefix |-> mime, data |-> b64]
RawB64(b64) == [prefix |-> "", data |-> b64]
\* Image payloads are records: the picture shown and a variation number.
Payload(name) == [pose |-> name, v |-> "-"]
GarmentImage == DataUrl("image/jpeg", Payload("garment"))
EditTarget == DataUrl("image/png", Payload("shot"))

\* An error object carries a message; a message is the set of text fragments
\* it is made of, and an undefined or empty message is the empty set.
Error(m) == [message |-> m]
ToLower(f) ==
  CASE f = "Overloaded" -> "overloaded"
    [] f = "API_KEY" -> "api_key"
    [] f = "INVALID" -> "invalid"
    [] OTHER -> f
toLowerCase(msg) == {ToLower(f) : f \in msg}
includes(msg, s) == s \in msg

ProviderMessages ==
  { {"503"}, {"Overloaded"}, {"deadline"}, {"resource exhausted"},
    {"service unavailable"}, {"404"}, {"not found"}, {"API_KEY", "INVALID"},
    {"invalid", "api key"}, {"503", "invalid", "api key"}, {"429"},
    {"network"}, {} }

\* ------------------------------------------------------------- classifier
\* Variation of isRetryableError: every error is taken to be retryable.
isRetryableError_any(error) == TRUE

isRetryableError(error) ==
  LET msg == toLowerCase(error.message)
  IN  \/ includes(msg, "503")
      \/ includes(msg, "overloaded")
      \/ includes(msg, "deadline")
      \/ includes(msg, "resource exhausted")
      \/ includes(msg, "service unavailable")

\* handleGeminiError always throws; the value is the error that is thrown.
handleGeminiError(error) ==
  LET msg == toLowerCase(error.message)
  IN  IF \/ includes(msg, "not found")
         \/ includes(msg, "404")
         \/ includes(msg, "api_key")
         \/ includes(msg, "invalid")
      THEN Error({"RESELECT_KEY"})
      ELSE error

fileToGenerativePart(base64Data, mimeType) ==
  [data |-> base64Data.data,
   mimeType |-> IF mimeType = "" THEN "image/jpeg" ELSE mimeType]

\* ------------------------------------------------------------------ state
VARIABLES
  op,               \* operation invoked last: "none", "analyze", "generate", "edit"
  variant,          \* generatePhotoshoot snapshot: "multi", "first", "retry"
  pc,               \* "idle", "await", "resume", "delay", "done", "thrown"
  poses,            \* the pose descriptors of the running generatePhotoshoot
  i,                \* for-loop index (0-based)
  attempts,         \* per-frame attempt counter
  success,          \* per-frame success flag
  results,          \* accumulated PhotoshootImage list
  masterFrameB64,   \* the anchor, None while unset
  customBackgroundImage, \* multi variant: optional background reference
  customModelImage, \* multi variant: optional model reference
  retryCount,       \* analyzeGarment / editImage recursion argument
  delayMs,          \* the delay being awaited while pc = "delay"
  request,          \* the provider request of the latest call
  response,         \* the provider's answer to the latest call
  calls,            \* provider calls of this invocation: frame, refs, outcome
  progress,         \* onProgress calls of this invocation
  thrown,           \* the error the operation rejected with, None otherwise
  returned          \* the value the operation resolved with, None otherwise

\* The state of the App component that the upload, analysis and launch
\* handlers read and write, and what they have asked of the service.
VARIABLES
  app,              \* App snapshot mounted: "none", "app", "effect", "batch"
  garments,         \* the garments state: id, analysis, isLoading, error
  nextId,           \* number of garment ids minted so far
  analysing,        \* analyzeGarment calls in flight, with the rest of their loop
  analysed,         \* per garment id, the analyzeGarment calls made for it
  succeeded,        \* ids of the garments an analyzeGarment call has returned for
  isLoading,        \* the isLoading state
  launches          \* handleGenerate runs in flight

\* The signed-in session of App.tsx: the user's data in the component, in
\* localStorage and in the cloud table, the shoot profile and the gallery.
VARIABLES
  user,             \* TRUE while a user is signed in
  today,            \* the calendar day of the clock, as toDateString tells it
  usage,            \* the usage state: count, lastReset
  selectedPoses,    \* the selectedPoses state
  history,          \* the history state, newest entry first
  generatedImages,  \* the generatedImages state: id, src
  editingImage,     \* the editingImage state, None while the editor is closed
  uiError,          \* the error state, NoError while no banner is shown
  localStorage,     \* the usage_limit_ and history_ items of the user
  cloud,            \* the user's row of the usage table, None while absent
  syncs,            \* syncAllUserData runs awaiting syncUsageFromCloud
  writes,           \* updateUsageInCloud requests in flight
  edits             \* onEdit runs awaiting editImage

serviceVars == <<op, variant, pc, poses, i, attempts, success, results,
                 masterFrameB64, customBackgroundImage, customModelImage,
                 retryCount, delayMs, request, response, calls, progress,
                 thrown, returned>>
uiVars == <<app, garments, nextId, analysing, analysed, succeeded, isLoading,
           launches>>
studioVars == <<user, today, usage, selectedPoses, history, generatedImages,
               editingImage, uiError, localStorage, cloud, syncs, writes,
               edits>>
vars == <<serviceVars, uiVars, studioVars>>

\* The error state while no banner is shown.
NoError == "null"

\* A UsageLimit value; lastReset is kept as the calendar day its timestamp
\* falls on, which is all that toDateString reads of it.
Usage(count, lastReset) == [count |-> count, lastReset |-> lastReset]

Init ==
  /\ op = "none"
  /\ variant = "retry"
  /\ pc = "idle"
  /\ poses = <<>>
  /\ i = 0
  /\ attempts = 0
  /\ success = FALSE
  /\ results = <<>>
  /\ masterFrameB64 = None
  /\ customBackgroundImage = FALSE
  /\ customModelImage = FALSE
  /\ retryCount = 0
  /\ delayMs = 0
  /\ request = None
  /\ response = None
  /\ calls = <<>>
  /\ progress = <<>>
  /\ thrown = None
  /\ returned = None
  /\ app = "none"
  /\ garments = <<>>
  /\ nextId = 0
  /\ analysing = EmptyBag
  /\ analysed = [id \in 1..MaxGarments |-> 0]
  /\ succeeded = {}
  /\ isLoading = FALSE
  /\ launches = EmptyBag
  /\ user = FALSE
  /\ today = 0
  /\ usage = Usage(0, 0)
  /\ selectedPoses = <<"front">>
  /\ history = <<>>
  /\ generatedImages = <<>>
  /\ editingImage = None
  /\ uiError = NoError
  /\ localStorage = [usage |-> None, history |-> None]
  /\ cloud = None
  /\ syncs = EmptyBag
  /\ writes = EmptyBag
  /\ edits = EmptyBag

\* -------------------------------------------------------------- provider
NoImage == Payload("none")
AnalysisTexts == {"full", "partial", "", "malformed"}
Resp(kind, img, text, err) == [kind |-> kind, img |-> img, text |-> text, error |-> err]

\* What the provider may answer to a request: an image rendered for the pose
\* named in the prompt, an answer without an inline image part, a text (for
\* the analysis model), or a failure.
Responses(req) ==
  (IF req.model = "image"
   THEN {Resp("image", [pose |-> req.pose, v |-> v], "", None) : v \in Variations}
        \cup {Resp("noimage", NoImage, "", None)}
   ELSE {Resp("text", NoImage, t, None) : t \in AnalysisTexts})
  \cup {Resp("error", NoImage, "", Error(m)) : m \in ProviderMessages}

Outcome(resp) ==
  CASE resp.kind = "error" ->
         IF isRetryableError(resp.error) THEN "transient" ELSE "fatal"
    [] OTHER -> resp.kind

Call(frame, req) ==
  [frame |-> frame, refs |-> req.refs, out |-> "pending", img |-> NoImage]
\* Variation of Progress: the retry flag is never raised.
Progress_noRetryFlag(index, total, isRetrying) ==
  [index |-> index, total |-> total, isRetrying |-> FALSE]

\* One onProgress(index, total, isRetrying) call.
Progress(index, total, isRetrying) ==
  [index |-> index, total |-> total, isRetrying |-> isRetrying]

\* The provider answers the outstanding call.
ProviderRespond ==
  /\ pc = "await"
  /\ \E resp \in Responses(request) :
       /\ response' = resp
       /\ calls' = [calls EXCEPT ![Len(calls)].out = Outcome(resp),
                                 ![Len(calls)].img = resp.img]
  /\ pc' = "resume"
  /\ UNCHANGED <<op, variant, poses, i, attempts, success, results,
                 masterFrameB64, customBackgroundImage, customModelImage,
                 retryCount, delayMs, request, progress, thrown, returned>>
  /\ UNCHANGED uiVars
  /\ UNCHANGED studioVars

\* ------------------------------------------- generatePhotoshoot (retry)
ImageRequest(refs, pose, mode) ==
  [model |-> "image", refs |-> refs, pose |-> pose, mode |-> mode]

\* Variation of BuildParts: the anchor is put in front of the garment.
BuildParts_anchorFirst(pose, master) ==
  LET g == fileToGenerativePart(GarmentImage, "image/jpeg")
      p2 == IF master # None
            THEN <<fileToGenerativePart(RawB64(master), "image/png"), g>>
            ELSE <<g>>
  IN  ImageRequest(p2, pose, IF master # None THEN "clone" ELSE "establish")

\* parts construction of one attempt: garment first, anchor second when set.
BuildParts(pose, master) ==
  LET p1 == <<fileToGenerativePart(GarmentImage, "image/jpeg")>>
      p2 == IF master # None
            THEN Append(p1, fileToGenerativePart(RawB64(master), "image/png"))
            ELSE p1
  IN  ImageRequest(p2, pose, IF master # None THEN "clone" ELSE "establish")

\* The loop from the head of an attempt to its provider call, or past the
\* last pose to the return statement.
RunLoop(ps, ni, natt, nres, nmaster, cl, pr) ==
  IF ni < Len(ps)
  THEN LET req == BuildParts(ps[ni + 1], nmaster)
       IN  /\ pc' = "await"
           /\ i' = ni
           /\ attempts' = natt
           /\ success' = FALSE
           /\ results' = nres
           /\ masterFrameB64' = nmaster
           /\ progress' = Append(pr, Progress(ni + 1, Len(ps), natt > 0))
           /\ request' = req
           /\ response' = None
           /\ calls' = Append(cl, Call(ni, req))
           /\ returned' = None
  ELSE /\ pc' = "done"
       /\ i' = ni
       /\ attempts' = natt
       /\ success' = (Len(ps) > 0)
       /\ results' = nres
       /\ masterFrameB64' = nmaster
       /\ progress' = pr
       /\ request' = request
       /\ response' = response
       /\ calls' = cl
       /\ returned' = [kind |-> "list", value |-> nres]

Idle == pc = "idle"

generatePhotoshoot(ps) ==
  /\ Idle
  /\ op' = "generate"
  /\ variant' = "retry"
  /\ poses' = ps
  /\ customBackgroundImage' = FALSE
  /\ customModelImage' = FALSE
  /\ retryCount' = 0
  /\ delayMs' = 0
  /\ thrown' = None
  /\ RunLoop(ps, 0, 0, <<>>, None, <<>>, <<>>)
  /\ UNCHANGED uiVars
  /\ UNCHANGED studioVars

\* Variation of CatchFrame: a failed attempt is never retried.
CatchFrame_noRetry(error) ==
  /\ returned' = None
  /\ attempts' = IF isRetryableError(error) THEN attempts + 1 ELSE attempts
  /\ pc' = "thrown"
  /\ delayMs' = delayMs
  /\ thrown' = error

\* Variation of CatchFrame: a frame that cannot be generated ends the loop
\* and the frames accumulated so far are returned.
CatchFrame_partial(error) ==
  /\ delayMs' = IF isRetryableError(error) /\ attempts + 1 < maxAttempts
                THEN FrameDelayMs ELSE delayMs
  /\ thrown' = None
  /\ attempts' = IF isRetryableError(error) THEN attempts + 1 ELSE attempts
  /\ IF isRetryableError(error) /\ attempts + 1 < maxAttempts
     THEN pc' = "delay" /\ returned' = None
     ELSE pc' = "done" /\ returned' = [kind |-> "list", value |-> results]

\* Variation of CatchFrame: the budget test is off by one.
CatchFrame_offByOne(error) ==
  /\ returned' = None
  /\ IF isRetryableError(error)
     THEN /\ attempts' = attempts + 1
          /\ IF attempts + 1 <= maxAttempts
             THEN /\ pc' = "delay"
                  /\ delayMs' = FrameDelayMs
                  /\ thrown' = None
             ELSE /\ pc' = "thrown"
                  /\ delayMs' = delayMs
                  /\ thrown' = error
     ELSE /\ attempts' = attempts
          /\ pc' = "thrown"
          /\ delayMs' = delayMs
          /\ thrown' = error

\* catch block of one attempt.
CatchFrame(error) ==
  /\ returned' = None
  /\ IF isRetryableError(error)
     THEN /\ attempts' = attempts + 1
          /\ IF attempts + 1 < maxAttempts
             THEN /\ pc' = "delay"
                  /\ delayMs' = FrameDelayMs
                  /\ thrown' = None
             ELSE /\ pc' = "thrown"
                  /\ delayMs' = delayMs
                  /\ thrown' = error
     ELSE /\ attempts' = attempts
          /\ pc' = "thrown"
          /\ delayMs' = delayMs
          /\ thrown' = error

\* Variation of PushResult: the new frame is put at the front of the list.
PushResult_unshift(res, idx, b64) ==
  <<[id |-> idx, src |-> DataUrl("image/png", b64)]>> \o res

\* results.push of a generated frame; the id carries the loop index.
PushResult(res, idx, b64) ==
  Append(res, [id |-> idx, src |-> DataUrl("image/png", b64)])

\* Variation of LockAnchor: every successful shot replaces the anchor.
LockAnchor_latest(master, b64) == b64

\* The first successful shot is locked as the anchor.
LockAnchor(master, b64) == IF master = None THEN b64 ELSE master

\* Variation of EmptyImageError: the image-less answer is reported with an
\* overload signature.
EmptyImageError_overloaded == Error({"overloaded"})

\* The error thrown inside the try block for an image-less answer.
EmptyImageError == Error({"Empty image response"})

\* Variation of ResumeFrame: a frame whose attempt failed is left out and the
\* loop goes on to the next pose.
ResumeFrame_skip ==
  /\ pc = "resume" /\ op = "generate" /\ variant = "retry"
  /\ IF response.kind = "image"
     THEN LET b64 == response.img
              nres == PushResult(results, i, b64)
              nmaster == LockAnchor(masterFrameB64, b64)
          IN  /\ RunLoop(poses, i + 1, 0, nres, nmaster, calls, progress)
              /\ UNCHANGED <<delayMs, thrown>>
     ELSE /\ RunLoop(poses, i + 1, 0, results, masterFrameB64, calls, progress)
          /\ UNCHANGED <<delayMs, thrown>>
  /\ UNCHANGED <<op, variant, poses, customBackgroundImage, customModelImage,
                 retryCount>>
  /\ UNCHANGED uiVars
  /\ UNCHANGED studioVars

\* The continuation of an attempt once the provider has answered.
ResumeFrame ==
  /\ pc = "resume" /\ op = "generate" /\ variant = "retry"
  /\ IF response.kind = "image"
     THEN LET b64 == response.img
              nres == PushResult(results, i, b64)
              nmaster == LockAnchor(masterFrameB64, b64)
          IN  /\ RunLoop(poses, i + 1, 0, nres, nmaster, calls, progress)
              /\ UNCHANGED <<delayMs, thrown>>
     ELSE /\ CatchFrame(IF response.kind = "error"
                        THEN response.error
                        ELSE EmptyImageError)
          /\ UNCHANGED <<i, success, results, masterFrameB64, request,
                         response, calls, progress>>
  /\ UNCHANGED <<op, variant, poses, customBackgroundImage, customModelImage,
                 retryCount>>
  /\ UNCHANGED uiVars
  /\ UNCHANGED studioVars

\* delay(2000) has elapsed: `continue` re-enters the while loop.
RetryFrame ==
  /\ pc = "delay" /\ op = "generate"
  /\ RunLoop(poses, i, attempts, results, masterFrameB64, calls, progress)
  /\ delayMs' = 0
  /\ UNCHANGED <<op, variant, poses, customBackgroundImage, customModelImage,
                 retryCount, thrown>>
  /\ UNCHANGED uiVars
  /\ UNCHANGED studioVars

\* ------------------------------------- generatePhotoshoot (first anchor)
\* Snapshot without retries: the anchor is taken from frame 0 only, an
\* image-less answer is skipped, and only a thrown error ends the loop.
BuildPartsFirst(ps, ni, master) ==
  LET p1 == <<fileToGenerativePart(GarmentImage, "image/jpeg")>>
  IN  IF ni = 0
      THEN ImageRequest(p1, ps[ni + 1], "establish")
      ELSE IF master # None
           THEN ImageRequest(
                  Append(p1, fileToGenerativePart(RawB64(master), "image/png")),
                  ps[ni + 1], "clone")
           ELSE ImageRequest(p1, "none", "empty")

RunLoopFirst(ps, ni, nres, nmaster, cl, pr) ==
  IF ni < Len(ps)
  THEN LET req == BuildPartsFirst(ps, ni, nmaster)
       IN  /\ pc' = "await"
           /\ i' = ni
           /\ results' = nres
           /\ masterFrameB64' = nmaster
           /\ progress' = Append(pr, Progress(ni + 1, Len(ps), FALSE))
           /\ request' = req
           /\ response' = None
           /\ calls' = Append(cl, Call(ni, req))
           /\ returned' = None
  ELSE /\ pc' = "done"
       /\ i' = ni
       /\ results' = nres
       /\ masterFrameB64' = nmaster
       /\ progress' = pr
       /\ request' = request
       /\ response' = response
       /\ calls' = cl
       /\ returned' = [kind |-> "list", value |-> nres]

generatePhotoshootFirst(ps) ==
  /\ Idle
  /\ op' = "generate"
  /\ variant' = "first"
  /\ poses' = ps
  /\ attempts' = 0
  /\ success' = FALSE
  /\ customBackgroundImage' = FALSE
  /\ customModelImage' = FALSE
  /\ retryCount' = 0
  /\ delayMs' = 0
  /\ thrown' = None
  /\ RunLoopFirst(ps, 0, <<>>, None, <<>>, <<>>)
  /\ UNCHANGED uiVars
  /\ UNCHANGED studioVars

ResumeFirst ==
  /\ pc = "resume" /\ op = "generate" /\ variant = "first"
  /\ CASE response.kind = "image" ->
            LET b64 == response.img
                nres == Append(results, [id |-> i, src |-> DataUrl("image/png", b64)])
                nmaster == IF i = 0 THEN b64 ELSE masterFrameB64
            IN  /\ RunLoopFirst(poses, i + 1, nres, nmaster, calls, progress)
                /\ thrown' = thrown
       [] response.kind = "error" ->
            /\ pc' = "thrown"
            /\ thrown' = handleGeminiError(response.error)
            /\ UNCHANGED <<i, results, masterFrameB64, request, response,
                           calls, progress, returned>>
       [] OTHER ->
            /\ RunLoopFirst(poses, i + 1, results, masterFrameB64, calls, progress)
            /\ thrown' = thrown
  /\ UNCHANGED <<op, variant, poses, attempts, success, customBackgroundImage,
                 customModelImage, retryCount, delayMs>>
  /\ UNCHANGED uiVars
  /\ UNCHANGED studioVars

\* ------------------------------------- generatePhotoshoot (multi-garment)
\* Key-resolver snapshot: the key is resolved before the loop, a render
\* error other than a quota error is logged and swallowed.
EnvKeys ==
  { None,
    [kind |-> "key", length |-> 39, placeholder |-> FALSE],
    [kind |-> "key", length |-> 12, placeholder |-> FALSE],
    [kind |-> "key", length |-> 44, placeholder |-> TRUE] }

getActiveApiKey(key) ==
  IF key # None /\ key.length > 30 /\ ~key.placeholder THEN key ELSE None

BuildPartsMulti(pose, bg, mdl) ==
  LET p1 == <<fileToGenerativePart(GarmentImage, "image/jpeg")>>
      p2 == IF bg THEN Append(p1, fileToGenerativePart(
                         DataUrl("image/jpeg", Payload("background")), "image/jpeg"))
            ELSE p1
      p3 == IF mdl THEN Append(p2, fileToGenerativePart(
                          DataUrl("image/jpeg", Payload("model")), "image/jpeg"))
            ELSE p2
  IN  ImageRequest(p3, pose, "editorial")

RunLoopMulti(ps, bg, mdl, ni, nres, cl, pr) ==
  IF ni < Len(ps)
  THEN LET req == BuildPartsMulti(ps[ni + 1], bg, mdl)
       IN  /\ pc' = "await"
           /\ i' = ni
           /\ results' = nres
           /\ progress' = Append(pr, Progress(ni + 1, Len(ps), FALSE))
           /\ request' = req
           /\ response' = None
           /\ calls' = Append(cl, Call(ni, req))
           /\ returned' = None
  ELSE /\ pc' = "done"
       /\ i' = ni
       /\ results' = nres
       /\ progress' = pr
       /\ request' = request
       /\ response' = response
       /\ calls' = cl
       /\ returned' = [kind |-> "list", value |-> nres]

generatePhotoshootMulti(ps, key, bg, mdl) ==
  /\ Idle
  /\ op' = "generate"
  /\ variant' = "multi"
  /\ poses' = ps
  /\ attempts' = 0
  /\ success' = FALSE
  /\ masterFrameB64' = None
  /\ customBackgroundImage' = bg
  /\ customModelImage' = mdl
  /\ retryCount' = 0
  /\ delayMs' = 0
  /\ IF getActiveApiKey(key) = None
     THEN /\ pc' = "thrown"
          /\ response' = None
          /\ thrown' = Error({"AUTH_ERROR"})
          /\ i' = 0
          /\ results' = <<>>
          /\ progress' = <<>>
          /\ calls' = <<>>
          /\ returned' = None
          /\ request' = request
     ELSE /\ thrown' = None
          /\ RunLoopMulti(ps, bg, mdl, 0, <<>>, <<>>, <<>>)
  /\ UNCHANGED uiVars
  /\ UNCHANGED studioVars

ResumeMulti ==
  /\ pc = "resume" /\ op = "generate" /\ variant = "multi"
  /\ CASE response.kind = "image" ->
            LET src == DataUrl("image/png", response.img)
                nres == Append(results, [id |-> Len(results), src |-> src])
            IN  /\ RunLoopMulti(poses, customBackgroundImage, customModelImage,
                                i + 1, nres, calls, progress)
                /\ thrown' = thrown
       [] response.kind = "error" /\ includes(response.error.message, "429") ->
            /\ pc' = "thrown"
            /\ thrown' = Error({"QUOTA_EXCEEDED"})
            /\ UNCHANGED <<i, results, request, response, calls, progress,
                           returned>>
       [] OTHER ->
            /\ RunLoopMulti(poses, customBackgroundImage, customModelImage,
                            i + 1, results, calls, progress)
            /\ thrown' = thrown
  /\ UNCHANGED <<op, variant, poses, attempts, success, masterFrameB64,
                 customBackgroundImage, customModelImage, retryCount, delayMs>>
  /\ UNCHANGED uiVars
  /\ UNCHANGED studioVars

\* ----------------------------------------------------------- analyzeGarment
AnalysisRequest ==
  [model |-> "analysis",
   refs |-> <<fileToGenerativePart(GarmentImage, "image/jpeg")>>,
   pose |-> "none", mode |-> "analysis"]

\* JSON.parse of the response text (`response.text || "{}"`).
JSONparse(text) ==
  CASE text = "full" -> [ok |-> TRUE, value |-> "analysis", error |-> None]
    [] text = "partial" -> [ok |-> TRUE, value |-> "partial", error |-> None]
    [] text = "{}" -> [ok |-> TRUE, value |-> "empty", error |-> None]
    [] OTHER -> [ok |-> FALSE, value |-> "none",
                 error |-> Error({"Unexpected token"})]

\* One provider call of a single-shot operation (analyzeGarment, editImage).
SingleCall(req, rc, cl) ==
  /\ pc' = "await"
  /\ retryCount' = rc
  /\ request' = req
  /\ response' = None
  /\ calls' = Append(cl, Call(0, req))
  /\ delayMs' = 0
  /\ returned' = None
  /\ thrown' = None

ResetSequence ==
  /\ variant' = "retry"
  /\ poses' = <<>>
  /\ i' = 0
  /\ attempts' = 0
  /\ success' = FALSE
  /\ results' = <<>>
  /\ masterFrameB64' = None
  /\ customBackgroundImage' = FALSE
  /\ customModelImage' = FALSE
  /\ progress' = <<>>

analyzeGarment ==
  /\ Idle
  /\ op' = "analyze"
  /\ ResetSequence
  /\ SingleCall(AnalysisRequest, 0, <<>>)
  /\ UNCHANGED uiVars
  /\ UNCHANGED studioVars

\* 2^n for the back-off of analyzeGarment.
RECURSIVE Pow2(_)
Pow2(n) == IF n = 0 THEN 1 ELSE 2 * Pow2(n - 1)

\* Variation of BackoffMs: the same delay before every retry.
BackoffMs_fixed(rc) == AnalyzeBaseDelayMs

\* The delay analyzeGarment awaits before its next call.
BackoffMs(rc) == AnalyzeBaseDelayMs * Pow2(rc)

\* Variation of CatchSingle: the last retry of the budget is not made.
CatchSingle_oneRetryLess(error, limit, ms) ==
  IF isRetryableError(error) /\ retryCount < limit - 1
  THEN /\ pc' = "delay"
       /\ delayMs' = ms
       /\ thrown' = None
  ELSE /\ pc' = "thrown"
       /\ delayMs' = delayMs
       /\ thrown' = handleGeminiError(error)

\* Variation of CatchSingle: one retry more than the budget is made.
CatchSingle_oneRetryMore(error, limit, ms) ==
  IF isRetryableError(error) /\ retryCount <= limit
  THEN /\ pc' = "delay"
       /\ delayMs' = ms
       /\ thrown' = None
  ELSE /\ pc' = "thrown"
       /\ delayMs' = delayMs
       /\ thrown' = handleGeminiError(error)

\* catch block of analyzeGarment / editImage.
CatchSingle(error, limit, ms) ==
  IF isRetryableError(error) /\ retryCount < limit
  THEN /\ pc' = "delay"
       /\ delayMs' = ms
       /\ thrown' = None
  ELSE /\ pc' = "thrown"
       /\ delayMs' = delayMs
       /\ thrown' = handleGeminiError(error)

ResumeAnalyze ==
  /\ pc = "resume" /\ op = "analyze"
  /\ LET text == IF response.text = "" THEN "{}" ELSE response.text
         parsed == JSONparse(text)
     IN  IF response.kind = "text" /\ parsed.ok
         THEN /\ pc' = "done"
              /\ returned' = [kind |-> "analysis", value |-> parsed.value]
              /\ UNCHANGED <<delayMs, thrown>>
         ELSE /\ CatchSingle(IF response.kind = "error" THEN response.error
                             ELSE parsed.error,
                             AnalyzeRetryLimit,
                             BackoffMs(retryCount))
              /\ returned' = returned
  /\ UNCHANGED <<op, variant, poses, i, attempts, success, results,
                 masterFrameB64, customBackgroundImage, customModelImage,
                 retryCount, request, response, calls, progress>>
  /\ UNCHANGED uiVars
  /\ UNCHANGED studioVars

RetryAnalyze ==
  /\ pc = "delay" /\ op = "analyze"
  /\ SingleCall(AnalysisRequest, retryCount + 1, calls)
  /\ UNCHANGED <<op, variant, poses, i, attempts, success, results,
                 masterFrameB64, customBackgroundImage, customModelImage,
                 progress>>
  /\ UNCHANGED uiVars
  /\ UNCHANGED studioVars

\* analyzeGarment of the key-resolver service: one call, no retry; whatever
\* is thrown inside its try block, the error of getAI included, goes
\* through its catch block.
AnalysisError(error) ==
  IF includes(error.message, "429") \/ includes(error.message, "quota")
  THEN Error({"QUOTA_EXCEEDED"})
  ELSE Error({"ANALYSIS_FAILED"})

analyzeGarmentMulti(key) ==
  /\ Idle
  /\ op' = "analyze"
  /\ variant' = "multi"
  /\ poses' = <<>>
  /\ i' = 0
  /\ attempts' = 0
  /\ success' = FALSE
  /\ results' = <<>>
  /\ masterFrameB64' = None
  /\ customBackgroundImage' = FALSE
  /\ customModelImage' = FALSE
  /\ progress' = <<>>
  /\ IF getActiveApiKey(key) = None
     THEN /\ pc' = "thrown"
          /\ thrown' = AnalysisError(Error({"AUTH_ERROR"}))
          /\ retryCount' = 0
          /\ delayMs' = 0
          /\ request' = None
          /\ response' = None
          /\ calls' = <<>>
          /\ returned' = None
     ELSE SingleCall(AnalysisRequest, 0, <<>>)
  /\ UNCHANGED uiVars
  /\ UNCHANGED studioVars

ResumeAnalyzeMulti ==
  /\ pc = "resume" /\ op = "analyze" /\ variant = "multi"
  /\ LET parsed == JSONparse(response.text)
     IN  CASE response.kind = "error" ->
                /\ pc' = "thrown"
                /\ thrown' = AnalysisError(response.error)
                /\ returned' = returned
           [] response.kind # "error" /\ response.text = "" ->
                /\ pc' = "thrown"
                /\ thrown' = AnalysisError(Error({"Empty AI response"}))
                /\ returned' = returned
           [] response.kind # "error" /\ response.text # "" /\ ~parsed.ok ->
                /\ pc' = "thrown"
                /\ thrown' = AnalysisError(parsed.error)
                /\ returned' = returned
           [] OTHER ->
                /\ pc' = "done"
                /\ returned' = [kind |-> "analysis", value |-> parsed.value]
                /\ thrown' = thrown
  /\ UNCHANGED <<op, variant, poses, i, attempts, success, results,
                 masterFrameB64, customBackgroundImage, customModelImage,
                 retryCount, delayMs, request, response, calls, progress>>
  /\ UNCHANGED uiVars
  /\ UNCHANGED studioVars

\* The message the analyze effect of the "effect" snapshot sets for an error
\* of analyzeGarment.
AnalyzeEffectMessage(e) ==
  IF e.message = {"AUTH_ERROR"}
  THEN "Missing or invalid API Key in project settings."
  ELSE "Analysis failed."

\* ---------------------------------------------------------------- editImage
EditRequest ==
  ImageRequest(<<fileToGenerativePart(EditTarget, "image/jpeg")>>,
               "refined", "refine")

editImage ==
  /\ Idle
  /\ op' = "edit"
  /\ ResetSequence
  /\ SingleCall(EditRequest, 0, <<>>)
  /\ UNCHANGED uiVars
  /\ UNCHANGED studioVars

ResumeEdit ==
  /\ pc = "resume" /\ op = "edit"
  /\ IF response.kind = "image"
     THEN /\ pc' = "done"
          /\ returned' = [kind |-> "image",
                          value |-> DataUrl("image/png", response.img)]
          /\ UNCHANGED <<delayMs, thrown>>
     ELSE /\ CatchSingle(IF response.kind = "error" THEN response.error
                         ELSE Error({"Edit failed"}),
                         EditRetryLimit, FrameDelayMs)
          /\ returned' = returned
  /\ UNCHANGED <<op, variant, poses, i, attempts, success, results,
                 masterFrameB64, customBackgroundImage, customModelImage,
                 retryCount, request, response, calls, progress>>
  /\ UNCHANGED uiVars
  /\ UNCHANGED studioVars

RetryEdit ==
  /\ pc = "delay" /\ op = "edit"
  /\ SingleCall(EditRequest, retryCount + 1, calls)
  /\ UNCHANGED <<op, variant, poses, i, attempts, success, results,
                 masterFrameB64, customBackgroundImage, customModelImage,
                 progress>>
  /\ UNCHANGED uiVars
  /\ UNCHANGED studioVars

\* ------------------------------------------------------------------ settle
\* The promise of the operation has settled and its caller has taken the
\* value or the error; the locals of the invocation are gone.
Settle ==
  /\ pc \in {"done", "thrown"}
  /\ pc' = "idle"
  /\ op' = op
  /\ ResetSequence
  /\ retryCount' = 0
  /\ delayMs' = 0
  /\ request' = None
  /\ response' = None
  /\ calls' = <<>>
  /\ thrown' = None
  /\ returned' = None
  /\ UNCHANGED uiVars
  /\ UNCHANGED studioVars

\* ------------------------------------------------------------ App component
\* The handlers of the App component around the garment list.  Three
\* snapshots differ in how an upload is analysed: "app" replaces the list
\* and analyses the first new garment, "batch" appends and analyses every
\* new garment in turn, "effect" appends and leaves the analysis to an
\* effect that runs whenever the garments state changes.  A handler reads
\* the state of the render it was created in; state updates are rendered
\* before the next event.  The loader overlay covers the whole page while
\* isLoading is set, so no control is reached until it is cleared.
Snapshots == {"app", "batch", "effect"}

Mount(v) ==
  /\ app = "none"
  /\ app' = v
  /\ UNCHANGED <<garments, nextId, analysing, analysed, succeeded, isLoading,
                 launches>>
  /\ UNCHANGED serviceVars
  /\ UNCHANGED studioVars

Garment(id) ==
  [id |-> id, analysis |-> FALSE, isLoading |-> TRUE, error |-> FALSE]
NewGarments(n) == [k \in 1..n |-> Garment(nextId + k)]
Ids(gs) == [k \in 1..Len(gs) |-> gs[k].id]

\* One analyzeGarment call awaited by a handler; rest holds the garments its
\* for loop will go on to.
AnalysisCall(g, rest) == [g |-> g, rest |-> rest]
One(x) == SetToBag({x})
Counted(count, g) == [count EXCEPT ![g] = @ + 1]

\* The analyze effect of the "effect" snapshot, run after a render in which
\* the garments state changed: the calls in flight and the call counts it
\* leaves, and the isLoading it sets.
Pending(gs) == SelectSeq(gs, LAMBDA g : g.isLoading /\ ~g.analysis)
EffectCalls(gs, inflight) ==
  IF Pending(gs) = <<>> THEN inflight
  ELSE inflight (+) One(AnalysisCall(Pending(gs)[1].id, Ids(Tail(Pending(gs)))))
EffectCounts(gs, count) ==
  IF Pending(gs) = <<>> THEN count ELSE Counted(count, Pending(gs)[1].id)
EffectLoading(gs, loading) == IF Pending(gs) = <<>> THEN loading ELSE TRUE

\* The files have been read: the garments are put in the list and their
\* analysis is started.  The file input of "app" takes one file, its drop
\* zone, shown while the list is empty, takes several.
Upload(n) ==
  /\ app # "none"
  /\ ~isLoading
  /\ nextId + n <= MaxGarments
  /\ (app = "app" /\ n > 1) => garments = <<>>
  /\ LET new == NewGarments(n)
         first == new[1].id
     IN  CASE app = "app" ->
                /\ garments' = new
                /\ analysing' = analysing (+) One(AnalysisCall(first, <<>>))
                /\ analysed' = Counted(analysed, first)
                /\ isLoading' = isLoading
           [] app = "batch" ->
                /\ garments' = garments \o new
                /\ analysing' =
                     analysing (+) One(AnalysisCall(first, Ids(Tail(new))))
                /\ analysed' = Counted(analysed, first)
                /\ isLoading' = isLoading
           [] app = "effect" ->
                /\ garments' = garments \o new
                /\ analysing' = EffectCalls(garments \o new, analysing)
                /\ analysed' = EffectCounts(garments \o new, analysed)
                /\ isLoading' = EffectLoading(garments \o new, isLoading)
  /\ nextId' = nextId + n
  /\ UNCHANGED <<app, succeeded, launches>>
  /\ UNCHANGED serviceVars
  /\ UNCHANGED studioVars

\* Variation of SetGarment: the result goes to the garment at the head of
\* the list, whatever its id.
SetGarment_byPosition(gs, id, ok, flagError) ==
  [k \in 1..Len(gs) |->
     IF k = 1
     THEN IF ok
          THEN [gs[k] EXCEPT !.analysis = TRUE, !.isLoading = FALSE]
          ELSE [gs[k] EXCEPT !.isLoading = FALSE, !.error = flagError \/ @]
     ELSE gs[k]]

\* setGarments(prev => prev.map(...)) of a settled analysis.
SetGarment(gs, id, ok, flagError) ==
  [k \in 1..Len(gs) |->
     IF gs[k].id = id
     THEN IF ok
          THEN [gs[k] EXCEPT !.analysis = TRUE, !.isLoading = FALSE]
          ELSE [gs[k] EXCEPT !.isLoading = FALSE, !.error = flagError \/ @]
     ELSE gs[k]]

\* analyzeGarment has returned or thrown: the garment is updated and the for
\* loop of the handler goes on to its next garment.
AnalysisSettles(call, ok) ==
  /\ BagIn(call, analysing)
  /\ LET rest == call.rest
         gs == SetGarment(garments, call.g, ok, app # "effect")
         left == analysing (-) One(call)
         inflight == IF rest = <<>> THEN left
                     ELSE left (+) One(AnalysisCall(Head(rest), Tail(rest)))
         count == IF rest = <<>> THEN analysed
                  ELSE Counted(analysed, Head(rest))
     IN  /\ garments' = gs
         /\ IF app = "effect"
            THEN /\ analysing' = EffectCalls(gs, inflight)
                 /\ analysed' = EffectCounts(gs, count)
                 /\ isLoading' =
                      EffectLoading(gs, IF rest = <<>> THEN FALSE ELSE isLoading)
            ELSE /\ analysing' = inflight
                 /\ analysed' = count
                 /\ isLoading' = isLoading
  /\ succeeded' = IF ok THEN succeeded \cup {call.g} ELSE succeeded
  /\ UNCHANGED <<app, nextId, launches>>
  /\ UNCHANGED serviceVars
  /\ UNCHANGED studioVars

\* The remove button of a garment tile: "app" clears the list, the other
\* snapshots take the one garment out.
RemoveGarment(id) ==
  /\ app # "none"
  /\ ~isLoading
  /\ \E k \in DOMAIN garments : garments[k].id = id
  /\ LET gs == IF app = "app" THEN <<>>
               ELSE SelectSeq(garments, LAMBDA g : g.id # id)
     IN  /\ garments' = gs
         /\ analysing' = IF app = "effect" THEN EffectCalls(gs, analysing)
                         ELSE analysing
         /\ analysed' = IF app = "effect" THEN EffectCounts(gs, analysed)
                        ELSE analysed
         /\ isLoading' = IF app = "effect" THEN EffectLoading(gs, isLoading)
                         ELSE isLoading
  /\ UNCHANGED <<app, nextId, succeeded, launches>>
  /\ UNCHANGED serviceVars
  /\ UNCHANGED studioVars

\* Variation of LaunchDisabled: the button does not look at the analysis of
\* the first garment.
LaunchDisabled_noAnalysisTest(count, nSelected) ==
  \/ isLoading
  \/ Len(garments) = 0
  \/ count >= DAILY_LIMIT
  \/ count + nSelected > DAILY_LIMIT

\* Variation of LaunchDisabled: the button does not look at the poses the
\* launch would add to the count.
LaunchDisabled_noExceedTest(count, nSelected) ==
  \/ isLoading
  \/ Len(garments) = 0
  \/ count >= DAILY_LIMIT
  \/ ~garments[1].analysis

\* disabled attribute of the launch button of the "app" snapshot; count is
\* usage.count and nSelected is selectedPoses.length.
LaunchDisabled(count, nSelected) ==
  \/ isLoading
  \/ Len(garments) = 0
  \/ count >= DAILY_LIMIT
  \/ count + nSelected > DAILY_LIMIT
  \/ ~garments[1].analysis

\* One handleGenerate run: the garments it hands to generatePhotoshoot and
\* how far it has come.
Launch(items, state) == [items |-> items, state |-> state]

\* handleGenerate of the "app" snapshot; the launch button is rendered for a
\* signed-in user only.
handleGenerate(signedIn, count, nSelected) ==
  /\ app = "app"
  /\ signedIn
  /\ ~LaunchDisabled(count, nSelected)
  /\ IF ~signedIn \/ DAILY_LIMIT - count <= 0
     THEN UNCHANGED <<isLoading, launches>>
     ELSE /\ isLoading' = TRUE
          /\ launches' = launches (+) One(Launch(<<garments[1]>>, "running"))
  /\ UNCHANGED <<app, garments, nextId, analysing, analysed, succeeded>>
  /\ UNCHANGED serviceVars
  /\ UNCHANGED studioVars

\* handleGenerate of the "effect" snapshot; credits is usage.count, which
\* this snapshot counts down.
handleGenerateEffect(credits, nSelected) ==
  /\ app = "effect"
  /\ ~isLoading
  /\ IF credits < nSelected
     THEN UNCHANGED <<isLoading, launches>>
     ELSE /\ isLoading' = TRUE
          /\ launches' =
               launches (+) One(Launch(SelectSeq(garments, LAMBDA g : g.analysis),
                                       "prompt"))
  /\ UNCHANGED <<app, garments, nextId, analysing, analysed, succeeded>>
  /\ UNCHANGED serviceVars
  /\ UNCHANGED studioVars

\* enhanceModelPrompt has settled: generatePhotoshoot is invoked, or the
\* catch block ends the run.
PromptSettles(run, ok) ==
  /\ BagIn(run, launches)
  /\ run.state = "prompt"
  /\ IF ok
     THEN /\ launches' = (launches (-) One(run))
                           (+) One(Launch(run.items, "running"))
          /\ isLoading' = isLoading
     ELSE /\ launches' = launches (-) One(run)
          /\ isLoading' = FALSE
  /\ UNCHANGED <<app, garments, nextId, analysing, analysed, succeeded>>
  /\ UNCHANGED serviceVars
  /\ UNCHANGED studioVars

\* generatePhotoshoot has returned or thrown to handleGenerate.
GenerationSettles(run) ==
  /\ BagIn(run, launches)
  /\ run.state = "running"
  /\ launches' = launches (-) One(run)
  /\ isLoading' = FALSE
  /\ UNCHANGED <<app, garments, nextId, analysing, analysed, succeeded>>
  /\ UNCHANGED serviceVars
  /\ UNCHANGED studioVars

\* --------------------------------------------------------- signed-in session
\* App.tsx with a user: the usage counter and its copies in localStorage and
\* in the cloud table, the shoot profile, the history log, the gallery and
\* the editor.  The editor covers the whole page while it is open, as the
\* loader does while isLoading is set.
POSES == {"front", "three_quarters", "side", "back", "close_up", "lifestyle"}
MaxSelected == 5
HistoryCap == 15
BATCH_DAILY_LIMIT == 20

\* Calendar days the clock runs through.
MaxDay == 1
\* Requests to the cloud table in flight once a user has signed in.
MaxInFlight == 2
\* Launches of a session whose usage is followed over sign-ins and days.
MaxLaunches == 3
\* Entries of the history item found in localStorage by a new session.
StoredEntries == 13

\* A HistoryEntry by its timestamp (the day it falls on) and the number of
\* its images, and a PhotoshootImage.
Entry(timestamp, images) == [timestamp |-> timestamp, images |-> images]
Image(id, src) == [id |-> id, src |-> src]
StoredHistory(n) == [k \in 1..n |-> Entry(0, 1)]

\* The history item of localStorage, None while absent.
Stored(value) == [value |-> value]

\* A row of the usage table.
Row(count, last_reset) == [count |-> count, last_reset |-> last_reset]

\* One syncAllUserData run awaiting syncUsageFromCloud, with the value the
\* request has been answered with.
Unanswered == [kind |-> "unanswered"]
Sync(cloudUsage) == [cloudUsage |-> cloudUsage]

\* One updateUsageInCloud request; run is the handleGenerate run awaiting
\* it, None when nothing awaits it.
Write(count, lastReset, run) ==
  [count |-> count, lastReset |-> lastReset, run |-> run]

\* The session of a user found in localStorage once the garments have been
\* uploaded and analysed: one garment in "app", MaxGarments in "batch".
\* Either the sync of the mount has loaded the n history entries earlier
\* sessions left and a usage of count credits spent today, from the cloud
\* row if any are spent, or it is still awaiting its answer in a browser
\* that stores nothing of the user yet.
Uploaded(v) == IF v = "batch" THEN MaxGarments ELSE 1
InitSession(v, n, synced, count) ==
  /\ op = "none"
  /\ variant = "retry"
  /\ pc = "idle"
  /\ poses = <<>>
  /\ i = 0
  /\ attempts = 0
  /\ success = FALSE
  /\ results = <<>>
  /\ masterFrameB64 = None
  /\ customBackgroundImage = FALSE
  /\ customModelImage = FALSE
  /\ retryCount = 0
  /\ delayMs = 0
  /\ request = None
  /\ response = None
  /\ calls = <<>>
  /\ progress = <<>>
  /\ thrown = None
  /\ returned = None
  /\ app = v
  /\ garments = [id \in 1..Uploaded(v) |->
                   [Garment(id) EXCEPT !.analysis = TRUE, !.isLoading = FALSE]]
  /\ nextId = Uploaded(v)
  /\ analysing = EmptyBag
  /\ analysed = [id \in 1..MaxGarments |-> IF id <= Uploaded(v) THEN 1 ELSE 0]
  /\ succeeded = 1..Uploaded(v)
  /\ isLoading = FALSE
  /\ launches = EmptyBag
  /\ user = TRUE
  /\ today = 0
  /\ usage = Usage(count, 0)
  /\ selectedPoses = <<"front">>
  /\ history = StoredHistory(n)
  /\ localStorage =
       IF synced
       THEN [usage |-> Usage(count, 0), history |-> Stored(StoredHistory(n))]
       ELSE [usage |-> None, history |-> None]
  /\ generatedImages = <<>>
  /\ editingImage = None
  /\ uiError = NoError
  /\ cloud = IF count = 0 THEN None ELSE Row(count, 0)
  /\ syncs = IF synced THEN EmptyBag ELSE One(Sync(Unanswered))
  /\ writes = EmptyBag
  /\ edits = EmptyBag

InitStudio == \E n \in {0, StoredEntries} : InitSession("app", n, TRUE, 0)
InitProduction ==
  \E v \in {"app", "batch"}, n \in {0, StoredEntries} :
    InitSession(v, n, TRUE, 0)
InitUsage == InitSession("app", 0, FALSE, 0)
InitPoses == \E count \in 0..DAILY_LIMIT : InitSession("app", 0, TRUE, count)

\* Midnight passes.
NextDay ==
  /\ today < MaxDay
  /\ today' = today + 1
  /\ UNCHANGED <<user, usage, selectedPoses, history, generatedImages,
                 editingImage, uiError, localStorage, cloud, syncs, writes,
                 edits>>
  /\ UNCHANGED <<serviceVars, uiVars>>

\* The Google sign-in callback: setUser, syncAllUserData, and the effect on
\* user that calls syncAllUserData once more.
SignIn ==
  /\ app \in {"app", "batch"}
  /\ ~user
  /\ ~isLoading
  /\ BagCardinality(syncs) + BagCardinality(writes) + 2 <= MaxInFlight
  /\ user' = TRUE
  /\ syncs' = (syncs (+) One(Sync(Unanswered))) (+) One(Sync(Unanswered))
  /\ UNCHANGED <<today, usage, selectedPoses, history, generatedImages,
                 editingImage, uiError, localStorage, cloud, writes, edits>>
  /\ UNCHANGED <<serviceVars, uiVars>>

\* onSignOut of the header.
SignOut ==
  /\ app \in {"app", "batch"}
  /\ user
  /\ ~isLoading
  /\ editingImage = None
  /\ user' = FALSE
  /\ UNCHANGED <<today, usage, selectedPoses, history, generatedImages,
                 editingImage, uiError, localStorage, cloud, syncs, writes,
                 edits>>
  /\ UNCHANGED <<serviceVars, uiVars>>

\* The GET of syncUsageFromCloud is answered with the user's row, or fails
\* and null is returned.
syncUsageFromCloud(sync, ok) ==
  /\ BagIn(sync, syncs)
  /\ sync.cloudUsage = Unanswered
  /\ syncs' = (syncs (-) One(sync)) (+) One(Sync(IF ok THEN cloud ELSE None))
  /\ UNCHANGED <<user, today, usage, selectedPoses, history, generatedImages,
                 editingImage, uiError, localStorage, cloud, writes, edits>>
  /\ UNCHANGED <<serviceVars, uiVars>>

\* The usage syncAllUserData starts from: the cloud row, else the stored
\* item, else a fresh counter.
CurrentUsage(cloudUsage, savedUsage) ==
  IF cloudUsage # None THEN Usage(cloudUsage.count, cloudUsage.last_reset)
  ELSE IF savedUsage # None THEN savedUsage
  ELSE Usage(0, today)

\* Variation of AdoptedUsage: the counter is kept over a change of day.
AdoptedUsage_noReset(currentUsage) == currentUsage

\* The usage syncAllUserData sets: a counter of another day is reset.
AdoptedUsage(currentUsage) ==
  IF today # currentUsage.lastReset THEN Usage(0, today) ELSE currentUsage

\* syncAllUserData after its await.
syncAllUserData(sync) ==
  /\ BagIn(sync, syncs)
  /\ sync.cloudUsage # Unanswered
  /\ LET currentUsage == CurrentUsage(sync.cloudUsage, localStorage.usage)
         adopted == AdoptedUsage(currentUsage)
     IN  /\ writes' = IF today # currentUsage.lastReset
                      THEN writes (+) One(Write(0, today, None))
                      ELSE writes
         /\ usage' = adopted
         /\ localStorage' = [localStorage EXCEPT !.usage = adopted]
  /\ history' = IF localStorage.history # None
                THEN localStorage.history.value
                ELSE history
  /\ syncs' = syncs (-) One(sync)
  /\ UNCHANGED <<user, today, selectedPoses, generatedImages, editingImage,
                 uiError, cloud, edits>>
  /\ UNCHANGED <<serviceVars, uiVars>>

includesPose(prev, poseId) == \E k \in DOMAIN prev : prev[k] = poseId

\* Variation of togglePoseUpdate: the last selected pose can be taken out.
togglePoseUpdate_emptying(prev, poseId, remaining) ==
  IF includesPose(prev, poseId)
  THEN SelectSeq(prev, LAMBDA p : p # poseId)
  ELSE IF Len(prev) >= MaxSelected \/ Len(prev) + 1 > remaining THEN prev
  ELSE Append(prev, poseId)

\* The updater togglePose hands to setSelectedPoses.
togglePoseUpdate(prev, poseId, remaining) ==
  IF includesPose(prev, poseId)
  THEN IF Len(prev) > 1 THEN SelectSeq(prev, LAMBDA p : p # poseId) ELSE prev
  ELSE IF Len(prev) >= MaxSelected \/ Len(prev) + 1 > remaining THEN prev
  ELSE Append(prev, poseId)

\* togglePose; the "batch" snapshot makes no test of the credits, which is
\* the test against as many credits as poses can be selected.
togglePose(poseId) ==
  /\ app \in {"app", "batch"}
  /\ user
  /\ ~isLoading
  /\ editingImage = None
  /\ LET remaining == IF app = "batch" THEN MaxSelected
                      ELSE DAILY_LIMIT - usage.count
     IN  /\ selectedPoses' = togglePoseUpdate(selectedPoses, poseId, remaining)
         /\ uiError' =
              IF /\ ~includesPose(selectedPoses, poseId)
                 /\ Len(selectedPoses) < MaxSelected
                 /\ Len(selectedPoses) + 1 > remaining
              THEN "Limit reached."
              ELSE uiError
  /\ UNCHANGED <<user, today, usage, history, generatedImages, editingImage,
                 localStorage, cloud, syncs, writes, edits>>
  /\ UNCHANGED <<serviceVars, uiVars>>

\* poseDescriptions of handleGenerate: one description for every pose of
\* POSES that is selected.
poseDescriptions(selected) == {p \in POSES : includesPose(selected, p)}

\* disabled attribute of the launch button of the "batch" snapshot.
totalSelectedPoses == Len(garments) * Len(selectedPoses)
allAnalyzed ==
  /\ Len(garments) > 0
  /\ \A k \in DOMAIN garments : ~garments[k].isLoading /\ garments[k].analysis
LaunchDisabledBatch ==
  \/ isLoading
  \/ Len(garments) = 0
  \/ usage.count >= BATCH_DAILY_LIMIT
  \/ usage.count + totalSelectedPoses > BATCH_DAILY_LIMIT
  \/ ~allAnalyzed

\* The test handleGenerate makes of the credits that remain.
OutOfCredits ==
  IF app = "batch"
  THEN BATCH_DAILY_LIMIT - usage.count < totalSelectedPoses
  ELSE DAILY_LIMIT - usage.count <= 0

\* One handleGenerate run with the garments, usage, history and
\* selectedPoses of the render it was created in: items are the garments it
\* calls generatePhotoshoot for, at is the one whose sequence it awaits and
\* session counts the images of the sequences before it.
Production(items, u, h, ps) ==
  [items |-> items, state |-> "running", usage |-> u, history |-> h,
   poses |-> ps, at |-> 1, session |-> 0]

\* The launch button is pressed: handleGenerate up to its first await of
\* generatePhotoshoot.
LaunchProduction ==
  /\ app \in {"app", "batch"}
  /\ user
  /\ editingImage = None
  /\ IF app = "batch" THEN ~LaunchDisabledBatch
     ELSE ~LaunchDisabled(usage.count, Len(selectedPoses))
  /\ LET items == IF app = "batch"
                  THEN SelectSeq(garments, LAMBDA g : g.analysis)
                  ELSE <<garments[1]>>
     IN  IF ~user
         THEN /\ uiError' = "Please sign in to generate images."
              /\ UNCHANGED <<isLoading, launches>>
         ELSE IF OutOfCredits
         THEN /\ uiError' = IF app = "batch" THEN "Insufficient credits."
                            ELSE "Daily limit reached."
              /\ UNCHANGED <<isLoading, launches>>
         ELSE /\ isLoading' = (items # <<>>)
              /\ uiError' = NoError
              /\ launches' =
                   IF items = <<>> THEN launches
                   ELSE launches
                          (+) One(Production(items, usage, history, selectedPoses))
  /\ UNCHANGED <<user, today, usage, selectedPoses, history, generatedImages,
                 editingImage, localStorage, cloud, syncs, writes, edits>>
  /\ UNCHANGED <<app, garments, nextId, analysing, analysed, succeeded>>
  /\ UNCHANGED serviceVars

Outcomes == {"returned", "RESELECT_KEY", "failed"}

\* The message the catch block of handleGenerate sets.
ProductionError(outcome) ==
  CASE outcome = "RESELECT_KEY" /\ app = "batch" ->
         "Production session expired. Please re-select your API key."
    [] outcome = "RESELECT_KEY" /\ app # "batch" ->
         "Your API key session expired. Please re-select your key."
    [] outcome # "RESELECT_KEY" /\ app = "batch" ->
         "Production was interrupted. Please check your connection and try again."
    [] OTHER -> "Production interrupted. Ensure you have a paid API key."

\* The images of a session of n frames.
Images(n) == [k \in 1..n |-> Image(k, "generated")]

\* Variation of SessionImages: the images of the sequence that was awaited
\* last.
SessionImages_lastSequence(run) ==
  Images(Cardinality(poseDescriptions(run.poses)))

\* allSessionImages once the awaited sequence has returned.
SessionImages(run) ==
  Images(run.session + Cardinality(poseDescriptions(run.poses)))

\* Variation of Interrupted: the frames of the sequences that had returned
\* are counted.
Interrupted_partial(run, outcome) ==
  /\ uiError' = ProductionError(outcome)
  /\ isLoading' = FALSE
  /\ usage' = [usage EXCEPT !.count = @ + run.session]
  /\ UNCHANGED <<generatedImages, localStorage, writes>>

\* The catch and finally blocks of handleGenerate.
Interrupted(run, outcome) ==
  /\ uiError' = ProductionError(outcome)
  /\ isLoading' = FALSE
  /\ UNCHANGED <<generatedImages, usage, localStorage, writes>>

\* generatePhotoshoot has returned its images or thrown: handleGenerate goes
\* on to the next garment, or up to its await of updateUsageInCloud, or
\* through its catch block.
ProductionSettles(run, outcome) ==
  /\ BagIn(run, launches)
  /\ run.state = "running"
  /\ LET images == SessionImages(run)
         newCount == run.usage.count + Len(images)
         newUsage == [run.usage EXCEPT !.count = newCount]
     IN  IF outcome = "returned" /\ run.at < Len(run.items)
         THEN /\ launches' =
                   (launches (-) One(run))
                     (+) One([run EXCEPT !.at = @ + 1, !.session = Len(images)])
              /\ UNCHANGED <<generatedImages, usage, localStorage, writes,
                             uiError, isLoading>>
         ELSE IF outcome = "returned" /\ Len(images) > 0
         THEN /\ launches' = launches (-) One(run)
              /\ generatedImages' = images
              /\ usage' = newUsage
              /\ localStorage' = [localStorage EXCEPT !.usage = newUsage]
              /\ writes' =
                   writes (+) One(Write(newCount, run.usage.lastReset, run))
              /\ UNCHANGED <<uiError, isLoading>>
         ELSE IF outcome = "returned"
         THEN /\ launches' = launches (-) One(run)
              /\ isLoading' = FALSE
              /\ UNCHANGED <<generatedImages, usage, localStorage, writes,
                             uiError>>
         ELSE /\ launches' = launches (-) One(run)
              /\ Interrupted(run, outcome)
  /\ UNCHANGED <<user, today, selectedPoses, history, editingImage, cloud,
                 syncs, edits>>
  /\ UNCHANGED <<app, garments, nextId, analysing, analysed, succeeded>>
  /\ UNCHANGED serviceVars

\* Variation of NewHistory: the new entry is put behind the old ones.
NewHistory_appended(newEntry, old) ==
  SubSeq(Append(old, newEntry), 1,
         IF Len(old) + 1 > HistoryCap THEN HistoryCap ELSE Len(old) + 1)

\* [newEntry, ...history].slice(0, 15)
NewHistory(newEntry, old) ==
  SubSeq(<<newEntry>> \o old, 1,
         IF Len(old) + 1 > HistoryCap THEN HistoryCap ELSE Len(old) + 1)

\* The POST of updateUsageInCloud is stored, or fails and the failure is
\* logged; a handleGenerate run awaiting it goes on to its history update
\* and its finally block.
updateUsageInCloud(write, ok) ==
  /\ BagIn(write, writes)
  /\ writes' = writes (-) One(write)
  /\ cloud' = IF ok THEN Row(write.count, write.lastReset) ELSE cloud
  /\ IF write.run # None
     THEN LET images == SessionImages(write.run)
              newHistory == NewHistory(Entry(today, Len(images)),
                                       write.run.history)
          IN  /\ history' = newHistory
              /\ localStorage' =
                   [localStorage EXCEPT !.history = Stored(newHistory)]
              /\ isLoading' = FALSE
     ELSE UNCHANGED <<history, localStorage, isLoading>>
  /\ UNCHANGED <<user, today, usage, selectedPoses, generatedImages,
                 editingImage, uiError, syncs, edits>>
  /\ UNCHANGED <<app, garments, nextId, analysing, analysed, succeeded,
                 launches>>
  /\ UNCHANGED serviceVars

\* onEditRequest of the gallery.
OpenEditor(image) ==
  /\ app \in {"app", "batch"}
  /\ user
  /\ ~isLoading
  /\ editingImage = None
  /\ \E k \in DOMAIN generatedImages : generatedImages[k] = image
  /\ editingImage' = image
  /\ UNCHANGED <<user, today, usage, selectedPoses, history, generatedImages,
                 uiError, localStorage, cloud, syncs, writes, edits>>
  /\ UNCHANGED <<serviceVars, uiVars>>

\* onClose of the editor: its close button, or its cancel button, which is
\* disabled while isLoading is set.
CloseEditor ==
  /\ editingImage # None
  /\ editingImage' = None
  /\ UNCHANGED <<user, today, usage, selectedPoses, history, generatedImages,
                 uiError, localStorage, cloud, syncs, writes, edits>>
  /\ UNCHANGED <<serviceVars, uiVars>>

\* handleSubmit of the editor with a prompt: onEdit up to its await of
\* editImage.  The submit button is disabled while isLoading is set.
onEdit ==
  /\ editingImage # None
  /\ ~isLoading
  /\ isLoading' = TRUE
  /\ edits' = edits (+) One(editingImage)
  /\ UNCHANGED <<user, today, usage, selectedPoses, history, generatedImages,
                 editingImage, uiError, localStorage, cloud, syncs, writes>>
  /\ UNCHANGED <<app, garments, nextId, analysing, analysed, succeeded,
                 launches>>
  /\ UNCHANGED serviceVars

\* Variation of Edited: every image of the gallery takes the new src.
Edited_all(images, target) ==
  [k \in DOMAIN images |-> [images[k] EXCEPT !.src = "edited"]]

\* prev.map(img => img.id === editingImage.id ? { ...img, src } : img)
Edited(images, target) ==
  [k \in DOMAIN images |->
     IF images[k].id = target.id THEN [images[k] EXCEPT !.src = "edited"]
     ELSE images[k]]

\* editImage has returned the new src or thrown: the rest of onEdit.
EditSettles(target, outcome) ==
  /\ BagIn(target, edits)
  /\ edits' = edits (-) One(target)
  /\ IF outcome = "returned"
     THEN /\ generatedImages' = Edited(generatedImages, target)
          /\ editingImage' = None
          /\ uiError' = uiError
     ELSE /\ uiError' = "Refinement failed."
          /\ UNCHANGED <<generatedImages, editingImage>>
  /\ isLoading' = FALSE
  /\ UNCHANGED <<user, today, usage, selectedPoses, history, localStorage,
                 cloud, syncs, writes>>
  /\ UNCHANGED <<app, garments, nextId, analysing, analysed, succeeded,
                 launches>>
  /\ UNCHANGED serviceVars

\* ------------------------------------------------------------ specification
\* The current service: analyzeGarment, generatePhotoshoot with per-frame
\* retries, editImage.
Next ==
  \/ \E ps \in PoseLists : generatePhotoshoot(ps)
  \/ analyzeGarment
  \/ editImage
  \/ ProviderRespond
  \/ ResumeFrame
  \/ RetryFrame
  \/ ResumeAnalyze
  \/ RetryAnalyze
  \/ ResumeEdit
  \/ RetryEdit
  \/ Settle

Spec == Init /\ [][Next]_vars

\* Every generatePhotoshoot snapshot of the repository side by side, and
\* analyzeGarment of the key-resolver service.
NextVariants ==
  \/ \E ps \in PoseLists : generatePhotoshoot(ps)
  \/ \E ps \in PoseLists : generatePhotoshootFirst(ps)
  \/ \E ps \in PoseLists, key \in EnvKeys, bg \in BOOLEAN, mdl \in BOOLEAN :
       generatePhotoshootMulti(ps, key, bg, mdl)
  \/ ProviderRespond
  \/ ResumeFrame
  \/ RetryFrame
  \/ ResumeFirst
  \/ ResumeMulti
  \/ \E key \in EnvKeys : analyzeGarmentMulti(key)
  \/ ResumeAnalyzeMulti
  \/ Settle

SpecVariants == Init /\ [][NextVariants]_vars

\* The current service under the scheduling of the event loop: an answered
\* call is resumed, an elapsed delay is followed by the retry, and the
\* provider client settles every call with an answer or an error.
SpecFair == Spec /\ WF_vars(Next)

\* The App component: uploads, analyses, removals and launches.
NextUI ==
  \/ \E v \in Snapshots : Mount(v)
  \/ \E n \in 1..MaxGarments : Upload(n)
  \/ \E call \in BagToSet(analysing), ok \in BOOLEAN : AnalysisSettles(call, ok)
  \/ \E id \in 1..MaxGarments : RemoveGarment(id)
  \/ \E signedIn \in BOOLEAN, count \in {0, 4, 5}, nSelected \in {1, 2} :
       handleGenerate(signedIn, count, nSelected)
  \/ \E credits \in {0, 2}, nSelected \in {1, 2} :
       handleGenerateEffect(credits, nSelected)
  \/ \E run \in BagToSet(launches), ok \in BOOLEAN : PromptSettles(run, ok)
  \/ \E run \in BagToSet(launches) : GenerationSettles(run)

SpecUI == Init /\ [][NextUI]_vars

\* The signed-in session on one calendar day: the shoot profile, launches,
\* the saving of their usage and history, and the editor.
StudioPoses == {"front", "side"}
NextStudio ==
  \/ \E poseId \in StudioPoses : togglePose(poseId)
  \/ LaunchProduction
  \/ \E run \in BagToSet(launches), outcome \in Outcomes :
       ProductionSettles(run, outcome)
  \/ \E write \in BagToSet(writes), ok \in BOOLEAN :
       updateUsageInCloud(write, ok)
  \/ \E id \in 1..MaxSelected, src \in {"generated", "edited"} :
       OpenEditor(Image(id, src))
  \/ CloseEditor
  \/ onEdit
  \/ \E target \in BagToSet(edits), outcome \in Outcomes :
       EditSettles(target, outcome)

SpecStudio == InitStudio /\ [][NextStudio]_vars

\* The launches of the "app" and "batch" snapshots.
NextProduction ==
  \/ NextDay
  \/ \E poseId \in StudioPoses : togglePose(poseId)
  \/ LaunchProduction
  \/ \E run \in BagToSet(launches), outcome \in Outcomes :
       ProductionSettles(run, outcome)
  \/ \E write \in BagToSet(writes), ok \in BOOLEAN :
       updateUsageInCloud(write, ok)

SpecProduction == InitProduction /\ [][NextProduction]_vars

\* The shoot profile of App.tsx: every pose button, with any number of the
\* day's credits spent.
NextPoses == \E poseId \in POSES : togglePose(poseId)

SpecPoses == InitPoses /\ [][NextPoses]_vars

\* The usage counter of a session over sign-outs, sign-ins and days; the
\* session starts with an empty history and makes MaxLaunches launches.
UsagePoses == {"side"}
NextUsage ==
  \/ NextDay
  \/ SignIn
  \/ SignOut
  \/ \E sync \in BagToSet(syncs), ok \in BOOLEAN : syncUsageFromCloud(sync, ok)
  \/ \E sync \in BagToSet(syncs) : syncAllUserData(sync)
  \/ \E poseId \in UsagePoses : togglePose(poseId)
  \/ (Len(history) < MaxLaunches /\ LaunchProduction)
  \/ \E run \in BagToSet(launches), outcome \in Outcomes :
       ProductionSettles(run, outcome)
  \/ \E write \in BagToSet(writes), ok \in BOOLEAN :
       updateUsageInCloud(write, ok)

SpecUsage == InitUsage /\ [][NextUsage]_vars

\* ================================================================ properties
GenRetry == op = "generate" /\ variant = "retry"
RetryScope == GenRetry \/ op \in {"analyze", "edit"}
FrameCalls(f) == Cardinality({k \in DOMAIN calls : calls[k].frame = f})
FrameOuts(f, o) ==
  Cardinality({k \in DOMAIN calls : calls[k].frame = f /\ calls[k].out = o})
AllFirstAttempt == \A k \in DOMAIN calls : calls[k].out = "image"
GarmentPart == [data |-> Payload("garment"), mimeType |-> "image/jpeg"]
AnchorPart(b64) == [data |-> b64, mimeType |-> "image/png"]

TransientSignatures ==
  {"503", "overloaded", "deadline", "resource exhausted", "service unavailable"}
CredentialSignatures == {"not found", "404", "api_key", "invalid"}
Carries(error, sigs) == toLowerCase(error.message) \cap sigs # {}
Carries404OrInvalidKey(error) ==
  \/ "404" \in toLowerCase(error.message)
  \/ {"invalid", "api key"} \subseteq toLowerCase(error.message)
Unclassified(error) ==
  ~Carries(error, TransientSignatures) /\ ~Carries(error, CredentialSignatures)

\* C1: when every provider call of a generatePhotoshoot invocation succeeds
\* on its first attempt, the returned list has one frame per pose, the k-th
\* frame is the one generated for poses[k], and the anchor is the image data
\* of the first returned frame.
C1_FirstAttemptSequence ==
  (GenRetry /\ pc = "done" /\ AllFirstAttempt) =>
    /\ returned.kind = "list"
    /\ Len(returned.value) = Len(poses)
    /\ Len(calls) = Len(poses)
    /\ \A k \in 1..Len(poses) :
         /\ returned.value[k].id = k - 1
         /\ returned.value[k].src.data.pose = poses[k]
    /\ Len(poses) > 0 => masterFrameB64 = returned.value[1].src.data

C1_Witness ==
  /\ GenRetry /\ pc = "done" /\ AllFirstAttempt
  /\ Len(poses) = 3 /\ poses[1] # poses[2]
  /\ results[1].src.data.v # results[3].src.data.v

\* C2: within one invocation the anchor is written at most once: it is set
\* by the first successful frame, and once set it keeps its value whatever
\* successes, retries and failures follow.
C2_AnchorWriteOnce ==
  [][ pc' # "idle" =>
        /\ masterFrameB64 # None => masterFrameB64' = masterFrameB64
        /\ (masterFrameB64 = None /\ masterFrameB64' # None) =>
             /\ results = <<>>
             /\ Len(results') = 1
             /\ masterFrameB64' = results'[1].src.data ]_vars

C2_Witness ==
  /\ GenRetry /\ masterFrameB64 # None
  /\ Len(results) >= 2 /\ results[2].src.data # masterFrameB64
  /\ \E k \in DOMAIN calls : calls[k].frame >= 1 /\ calls[k].out = "transient"

\* C3 (as stated): after frame 0 has failed twice with a Transient error the
\* invocation goes on to a third attempt; it has not thrown.
C3_ThirdAttempt ==
  (GenRetry /\ i = 0 /\ FrameOuts(0, "transient") = 2) => pc # "thrown"

\* C3 (amended): after frame 0 has failed once with a Transient error the
\* second attempt is made; when it succeeds the anchor and the first frame
\* are the second attempt's image, no failed attempt ever sets the anchor,
\* and a second Transient failure of frame 0 ends the invocation with a throw.
C3_SecondAttempt ==
  GenRetry =>
    /\ (Len(calls) = 1 /\ calls[1].out = "transient") => pc \in {"resume", "delay"}
    /\ FrameOuts(0, "image") = 0 => (masterFrameB64 = None /\ results = <<>>)
    /\ ( /\ Len(calls) >= 2
         /\ calls[1].out = "transient" /\ calls[2].out = "image"
         /\ pc # "resume"
         /\ Len(calls) = 2 \/ (Len(calls) = 3 /\ calls[3].out = "pending") ) =>
         /\ masterFrameB64 = calls[2].img
         /\ results = <<[id |-> 0, src |-> DataUrl("image/png", calls[2].img)]>>
    /\ (i = 0 /\ FrameOuts(0, "transient") = 2 /\ pc # "resume") => pc = "thrown"

C3_Witness ==
  /\ GenRetry /\ pc = "done" /\ Len(calls) >= 3
  /\ calls[1].out = "transient" /\ calls[2].out = "image"
  /\ masterFrameB64 = results[1].src.data

\* C4: when a frame exhausts its retry budget the invocation throws and no
\* frame list is returned, also when earlier frames had been generated.
C4_AllOrNothing ==
  GenRetry =>
    /\ (attempts >= maxAttempts \/ pc = "thrown") =>
         (pc = "thrown" /\ thrown # None /\ returned = None)
    /\ returned # None => (pc = "done" /\ thrown = None)

C4_Witness ==
  /\ GenRetry /\ pc = "thrown" /\ attempts = maxAttempts
  /\ Len(results) >= 1 /\ returned = None

\* C5: whenever a generatePhotoshoot variant returns normally the returned
\* list holds exactly one frame for every requested pose.
C5_FullListOnReturn ==
  (op = "generate" /\ pc = "done") =>
    (returned.kind = "list" /\ Len(returned.value) = Len(poses))

\* C6: every provider call of generatePhotoshoot carries the garment image
\* first; it carries that image alone while the anchor is unset (every
\* attempt of frame 0) and the garment followed by the anchor afterwards;
\* three poses without failures make three calls with 1, 2 and 2 reference
\* images.
C6_ReferenceImages ==
  GenRetry =>
    /\ \A k \in DOMAIN calls :
         LET r == calls[k].refs
         IN  /\ r[1] = GarmentPart
             /\ calls[k].frame = 0 => Len(r) = 1
             /\ calls[k].frame > 0 =>
                  (Len(r) = 2 /\ r[2] = AnchorPart(results[1].src.data))
    /\ pc = "await" =>
         /\ Len(request.refs) = IF masterFrameB64 = None THEN 1 ELSE 2
         /\ masterFrameB64 # None => request.refs[2] = AnchorPart(masterFrameB64)
    /\ (pc = "done" /\ AllFirstAttempt /\ Len(poses) = 3) =>
         [k \in 1..Len(calls) |-> Len(calls[k].refs)] = <<1, 2, 2>>

C6_Witness ==
  /\ GenRetry /\ pc = "await" /\ Len(calls) = 4 /\ i = 2
  /\ calls[1].out = "transient"
  /\ Len(calls[2].refs) = 1 /\ Len(request.refs) = 2

\* C7: whenever a provider call of analyzeGarment, of a generatePhotoshoot
\* frame or of editImage fails with an InvalidCredential signature and the
\* operation throws, the error it throws is RESELECT_KEY.
C7_ReselectKey ==
  ( /\ RetryScope /\ pc = "thrown"
    /\ response.kind = "error"
    /\ Carries(response.error, CredentialSignatures) ) =>
    thrown = Error({"RESELECT_KEY"})

\* C8 (as stated): an error carrying '404' or 'invalid api key', or an
\* unclassified error, is never retried.
C8_NeverRetried ==
  (RetryScope /\ pc = "delay") =>
    ~(Carries404OrInvalidKey(response.error) \/ Unclassified(response.error))

\* C8 (amended): an error carrying '404' or 'invalid api key' and no
\* Transient signature, or an unclassified error, is never retried: the
\* operation throws after the one call that failed with it.
C8_NeverRetriedUnlessTransient ==
  RetryScope =>
    /\ pc = "delay" =>
         (response.kind = "error" /\ Carries(response.error, TransientSignatures))
    /\ ( /\ response.kind = "error"
         /\ ~Carries(response.error, TransientSignatures)
         /\ pc # "resume" ) =>
         /\ pc = "thrown"
         /\ calls[Len(calls)].out = "fatal"
         /\ FrameOuts(calls[Len(calls)].frame, "fatal") = 1

C8_Witness ==
  /\ GenRetry /\ pc = "thrown" /\ i = 1
  /\ response.error = Error({"404"})
  /\ FrameCalls(1) = 1

\* C9: a frame whose provider call fails with a Transient signature on every
\* attempt gets exactly maxAttempts provider calls, and only then does the
\* invocation throw that error.
C9_ExactlyMaxAttempts ==
  GenRetry =>
    /\ \A f \in 0..Len(poses) : FrameCalls(f) <= maxAttempts
    /\ ( /\ pc = "thrown" /\ calls # <<>>
         /\ calls[Len(calls)].out = "transient" ) =>
         /\ FrameCalls(i) = maxAttempts
         /\ FrameOuts(i, "transient") = maxAttempts
         /\ thrown = response.error
    /\ ( /\ FrameOuts(i, "transient") = FrameCalls(i)
         /\ FrameCalls(i) < maxAttempts ) => pc # "thrown"

C9_Witness ==
  /\ GenRetry /\ pc = "thrown" /\ i = 1
  /\ FrameOuts(1, "transient") = maxAttempts
  /\ Len(results) = 1

\* C10 (as stated): an image-less response is a retryable failure: it ends
\* the sequence only once the frame's attempt budget is used up.
C10_EmptyIsRetried ==
  (GenRetry /\ pc = "thrown" /\ response.kind = "noimage") =>
    FrameCalls(i) = maxAttempts

\* C10 (amended): an image-less response is not retried: the invocation
\* throws the "Empty image response" error right after that call and returns
\* no list.
C10_EmptyIsFatal ==
  (GenRetry /\ response.kind = "noimage" /\ pc # "resume") =>
    /\ pc = "thrown"
    /\ thrown = Error({"Empty image response"})
    /\ returned = None
    /\ calls[Len(calls)].out = "noimage"
    /\ FrameOuts(i, "noimage") = 1

C10_Witness ==
  /\ GenRetry /\ pc = "thrown" /\ response.kind = "noimage"
  /\ Len(results) >= 1 /\ FrameCalls(i) = 1

\* C11 (as stated): a Transient error that has survived all of its retries
\* is thrown as it is, a generic failure; it is never turned into the
\* RESELECT_KEY signal, whatever else its text carries.
C11_TransientStaysGeneric ==
  ( /\ RetryScope /\ pc = "thrown"
    /\ response.kind = "error"
    /\ Carries(response.error, TransientSignatures) ) =>
    /\ thrown = response.error
    /\ thrown # Error({"RESELECT_KEY"})

\* C12 (as stated): at every point of a generatePhotoshoot invocation the
\* accumulated results hold the frames of poses[0..k-1] in pose order without
\* gaps or duplicates, and the anchor is set exactly when results is
\* non-empty and then equals the image of results[0].
C12_ResultsAnchorInvariant ==
  (op = "generate" /\ variant \in {"retry", "first"}) =>
    /\ Len(results) <= Len(poses)
    /\ \A k \in DOMAIN results :
         /\ results[k].id = k - 1
         /\ results[k].src.data.pose = poses[k]
    /\ (masterFrameB64 # None) <=> (results # <<>>)
    /\ results # <<>> => masterFrameB64 = results[1].src.data

\* C13: within one generatePhotoshoot invocation at most one provider call
\* is outstanding, and a call for frame f > 0 is issued only after a call of
\* frame f - 1 has produced an image, with the anchor already fixed and sent
\* along.
Outstanding == {k \in DOMAIN calls : calls[k].out = "pending"}
C13_SequentialCalls ==
  GenRetry =>
    /\ Cardinality(Outstanding) <= 1
    /\ Outstanding # {} <=> pc = "await"
    /\ Outstanding \subseteq {Len(calls)}
    /\ \A k \in DOMAIN calls :
         /\ k > 1 => calls[k - 1].frame <= calls[k].frame
         /\ calls[k].frame > 0 =>
              /\ \E j \in 1..(k - 1) :
                   /\ calls[j].frame = calls[k].frame - 1
                   /\ calls[j].out = "image"
              /\ masterFrameB64 # None
              /\ Len(calls[k].refs) = 2
              /\ calls[k].refs[2] = AnchorPart(masterFrameB64)

C13_Witness ==
  /\ GenRetry /\ pc = "await" /\ i = 2 /\ Len(calls) = 5
  /\ calls[1].out = "transient" /\ calls[3].out = "transient"
  /\ calls[5].out = "pending"

\* C14 (as stated): in every stage that retries, the delay awaited before a
\* retry is twice the delay awaited before the previous retry of the same
\* stage (the first being the stage's base delay).
RetriesSoFar == IF op = "generate" THEN attempts - 1 ELSE retryCount
C14_DelayDoubles ==
  (RetryScope /\ pc = "delay") =>
    delayMs = (IF op = "analyze" THEN AnalyzeBaseDelayMs ELSE FrameDelayMs)
                * Pow2(RetriesSoFar)

\* C14 (amended): analyzeGarment awaits 1000, 2000 and 4000 ms before its
\* first, second and third retry; a generatePhotoshoot frame and editImage
\* await 2000 ms before every retry.
C14_AnalyzeDoublesOthersFixed ==
  (RetryScope /\ pc = "delay") =>
    /\ op = "analyze" =>
         /\ retryCount \in 0..2
         /\ delayMs = <<1000, 2000, 4000>>[retryCount + 1]
    /\ op = "edit" => (retryCount \in 0..1 /\ delayMs = 2000)
    /\ op = "generate" => (attempts = 1 /\ delayMs = 2000)

C14_Witness ==
  /\ op = "analyze" /\ pc = "delay" /\ retryCount = 2
  /\ Len(calls) = 3 /\ \A k \in DOMAIN calls : calls[k].out = "transient"

\* C15: every provider attempt of frame i of generatePhotoshoot is preceded
\* by exactly one onProgress(i + 1, total, isRetry) call, isRetry being false
\* on the frame's first attempt and true on every later attempt of the same
\* frame; the reported index never decreases and total is poses.length.
EarlierAttempt(k) == \E j \in 1..(k - 1) : calls[j].frame = calls[k].frame
C15_ProgressBeforeAttempt ==
  GenRetry =>
    /\ Len(progress) = Len(calls)
    /\ \A k \in DOMAIN calls :
         /\ progress[k].index = calls[k].frame + 1
         /\ progress[k].total = Len(poses)
         /\ progress[k].isRetrying = EarlierAttempt(k)
         /\ k > 1 => progress[k - 1].index <= progress[k].index
    /\ pc = "await" =>
         progress[Len(progress)] = Progress(i + 1, Len(poses), attempts > 0)

C15_Witness ==
  /\ GenRetry /\ pc = "done" /\ Len(poses) = 3 /\ Len(progress) = 5
  /\ progress[2].isRetrying /\ progress[2].index = 1
  /\ ~progress[3].isRetrying /\ progress[3].index = 2
  /\ progress[5].isRetrying /\ progress[5].index = 3

\* C16 (as stated): an empty, malformed or partial analysis response is a
\* Transient failure: analyzeGarment retries it while the retry limit
\* allows and never returns an analysis made from it.
C16_MalformedIsRetried ==
  ( /\ op = "analyze" /\ pc # "resume"
    /\ response.kind = "text"
    /\ response.text \in {"", "partial", "malformed"} ) =>
    /\ returned = None
    /\ \/ pc = "delay"
       \/ pc = "thrown" /\ retryCount = AnalyzeRetryLimit

\* C17 (as stated): editImage makes one provider call when that call
\* succeeds, retries a Transient failure at most twice, and never makes as
\* many calls as a generatePhotoshoot frame may make.
C17_SmallerBudget ==
  (op = "edit" /\ pc # "idle") =>
    /\ (pc = "done" /\ calls[1].out = "image") => Len(calls) = 1
    /\ retryCount <= 2
    /\ Len(calls) < maxAttempts

\* C17 (amended): editImage makes one provider call when that call succeeds;
\* it retries only Transient failures, exactly twice when they persist,
\* which makes three calls, more than the two a generatePhotoshoot frame
\* may make.
C17_EditBudget ==
  (op = "edit" /\ pc # "idle") =>
    /\ Len(calls) = retryCount + 1
    /\ retryCount <= 2
    /\ \A k \in 1..(Len(calls) - 1) : calls[k].out = "transient"
    /\ (pc \notin {"await", "resume"} /\ calls[1].out = "image") =>
         (pc = "done" /\ Len(calls) = 1 /\ returned.kind = "image")
    /\ (pc = "thrown" /\ calls[Len(calls)].out = "transient") => Len(calls) = 3
    /\ pc = "delay" => Len(calls) < 3
    /\ 3 > maxAttempts

C17_Witness ==
  /\ op = "edit" /\ pc = "thrown" /\ Len(calls) = 3
  /\ \A k \in DOMAIN calls : calls[k].out = "transient"

\* C20: every operation ends, returning or throwing, after a bounded number
\* of provider calls whatever the provider answers: generatePhotoshoot makes
\* at most poses.length * maxAttempts calls and starts every frame with the
\* attempt counter at zero, analyzeGarment makes at most 4 calls and
\* editImage at most 3.
CallBudget ==
  /\ GenRetry => Len(calls) <= Len(poses) * maxAttempts
  /\ op = "analyze" => Len(calls) <= 4
  /\ op = "edit" => Len(calls) <= 3
FrameStartsAtZero ==
  (GenRetry' /\ pc' = "await" /\ (pc = "idle" \/ i' # i)) => attempts' = 0
C20_BoundedTermination ==
  /\ []CallBudget
  /\ [][FrameStartsAtZero]_vars
  /\ (pc \in {"await", "resume", "delay"}) ~> (pc \in {"done", "thrown"})

C20_Witness ==
  /\ GenRetry /\ pc = "thrown" /\ Len(poses) = 3
  /\ Len(calls) = Len(poses) * maxAttempts
  /\ attempts = maxAttempts /\ Len(results) = 2

\* C18 (as stated): the UI invokes analyzeGarment exactly once for every
\* uploaded garment: no garment is analysed twice, no two analyses of one
\* garment are in flight together, and every garment shown as loading has an
\* analysis in flight or queued in a running handler.
InFlightFor(id) ==
  {call \in BagToSet(analysing) : call.g = id}
QueuedFor(id) ==
  {call \in BagToSet(analysing) : \E k \in DOMAIN call.rest : call.rest[k] = id}
C18_AnalysedExactlyOnce ==
  /\ \A id \in 1..nextId :
       /\ analysed[id] <= 1
       /\ \A call \in InFlightFor(id) : CopiesIn(call, analysing) = 1
       /\ Cardinality(InFlightFor(id)) <= 1
  /\ \A k \in DOMAIN garments :
       garments[k].isLoading =>
         (InFlightFor(garments[k].id) \cup QueuedFor(garments[k].id)) # {}

\* C19: generatePhotoshoot is only ever invoked for garments whose analysis
\* is present because an analyzeGarment call for them has returned: never
\* for a garment that is still loading or whose analysis failed, and a run
\* is started only with garments of the list as it is at the click.
Range(seq) == {seq[k] : k \in DOMAIN seq}
Analysed(g) == g.analysis /\ ~g.isLoading /\ g.id \in succeeded
Started(run) ==
  /\ CopiesIn(run, launches') > CopiesIn(run, launches)
  /\ run.state = IF app = "effect" THEN "prompt" ELSE "running"
C19_LaunchOnlyAnalysed ==
  /\ [](\A run \in BagToSet(launches) : \A g \in Range(run.items) : Analysed(g))
  /\ [][\A run \in BagToSet(launches') :
          Started(run) =>
            /\ Range(run.items) \subseteq Range(garments)
            /\ app = "app" => run.items = <<garments[1]>>]_vars

C19_Witness ==
  /\ app = "app"
  /\ \E run \in BagToSet(launches) : run.state = "running" /\ run.items[1].id = 2
  /\ analysed[1] = 1 /\ 1 \notin succeeded
  /\ analysing = EmptyBag

\* C21: when generatePhotoshoot throws to handleGenerate, of the "app" or
\* of the "batch" snapshot and whatever sequences had returned before, the
\* gallery, the usage counter in the component, in localStorage and in the
\* cloud, and the history stay as they were, an error message is set and
\* isLoading is cleared.
C21_FailureLeavesNoTrace ==
  [][\A run \in BagToSet(launches), outcome \in Outcomes \ {"returned"} :
       ProductionSettles(run, outcome) =>
         /\ generatedImages' = generatedImages
         /\ usage' = usage
         /\ localStorage' = localStorage
         /\ cloud' = cloud
         /\ writes' = writes
         /\ history' = history
         /\ uiError' # NoError
         /\ isLoading' = FALSE]_vars

\* A batch launch has failed after an earlier launch filled the gallery.
C21_Witness ==
  /\ app = "batch"
  /\ uiError = ProductionError("failed")
  /\ ~isLoading
  /\ launches = EmptyBag
  /\ generatedImages # <<>>
  /\ usage.count = Len(generatedImages)
  /\ Len(history) = 1

\* C22: the history holds at most 15 entries, newest first; a launch whose
\* images have been saved puts exactly one entry in front of the entries
\* the history held and keeps the first 15, and no other step of a launch,
\* a failure among them, changes the history.
NewestFirst(h) ==
  \A k \in 1..(Len(h) - 1) : h[k].timestamp >= h[k + 1].timestamp
C23_WithinDailyLimit ==
  /\ [](usage.count <= DAILY_LIMIT)
  /\ [][LaunchProduction =>
          usage.count + Len(selectedPoses) <= DAILY_LIMIT]_vars
  /\ [][\A run \in BagToSet(launches), outcome \in Outcomes :
          ProductionSettles(run, outcome) =>
            /\ usage'.count \in {usage.count,
                                 run.usage.count + Len(run.poses)}
            /\ run.usage.count + Len(run.poses) <= DAILY_LIMIT]_vars

\* The last credits have been used by a launch of two poses after a
\* sign-in sync.
C23_Witness ==
  /\ usage.count = DAILY_LIMIT
  /\ Len(generatedImages) = 1
  /\ Len(history) = MaxLaunches
  /\ user
  /\ cloud # None

\* C24: while the calendar day stays the same, no step of a launch, of a
\* sync or of a cloud write lowers usage.count.
C24_CountNeverDecreases ==
  [][(today = 0 /\ today' = 0) => usage'.count >= usage.count]_vars

\* C29: syncAllUserData starts from the cloud row if the request returned
\* one, else from the stored item, else from a count of 0; when its
\* lastReset is of another day than today the usage becomes count 0 with
\* lastReset now and a write of that reset to the cloud is issued, and
\* otherwise the usage becomes that count and lastReset and nothing is
\* written to the cloud.
StoredUsage(sync) ==
  IF sync.cloudUsage # None
  THEN Usage(sync.cloudUsage.count, sync.cloudUsage.last_reset)
  ELSE IF localStorage.usage # None THEN localStorage.usage
  ELSE Usage(0, today)
C29_SyncResetsOnNewDay ==
  [][\A sync \in BagToSet(syncs) :
       syncAllUserData(sync) =>
         IF StoredUsage(sync).lastReset # today
         THEN /\ usage' = Usage(0, today)
              /\ writes' = writes (+) One(Write(0, today, None))
         ELSE /\ usage' = StoredUsage(sync)
              /\ writes' = writes]_vars

\* A sync of the second day has reset a counter the cloud holds at 2, and
\* its write is on the way.
C29_Witness ==
  /\ today = 1
  /\ usage = Usage(0, 1)
  /\ localStorage.usage = Usage(0, 1)
  /\ cloud = Row(2, 0)
  /\ BagIn(Write(0, 1, None), writes)

\* C25: while a generatePhotoshoot or editImage call is in flight isLoading
\* is set, and at most one such call is in flight, in App.tsx and in the
\* snapshot whose analysis effect sets and clears isLoading.
Running == {run \in BagToSet(launches) : run.state = "running"}
ImageCalls ==
  BagCardinality(edits)
    + BagCardinality([run \in Running |-> CopiesIn(run, launches)])
C25_OneImageOperation ==
  /\ ImageCalls > 0 => isLoading
  /\ ImageCalls <= 1

\* C26: when an analyzeGarment call settles, with a result or a failure,
\* the garments in the list are the ones that were in it, in their order,
\* and every garment other than the one the call was made for is as it was,
\* its loading flag included; a garment no longer in the list is not put
\* back.
C26_ResultGoesToItsGarment ==
  [][\A call \in BagToSet(analysing), ok \in BOOLEAN :
       AnalysisSettles(call, ok) =>
         /\ Ids(garments') = Ids(garments)
         /\ \A k \in DOMAIN garments :
              garments[k].id # call.g => garments'[k] = garments[k]]_vars

\* App.tsx: the first garment's analysis has returned, the list holds the
\* garment that replaced it, still loading with its own call in flight.
C26_Witness ==
  /\ app = "app"
  /\ succeeded = {1}
  /\ garments = <<Garment(2)>>
  /\ analysing = One(AnalysisCall(2, <<>>))

\* C27: when editImage returns, the gallery keeps its length and the ids
\* in their order, exactly one image has the id of the edited image and it
\* alone takes the new src, and the editor is closed; when editImage throws
\* the gallery is unchanged and onEdit leaves the editor as it is, open
\* unless the user has closed it; either way isLoading is cleared and the
\* usage counter, in the component, in localStorage and in the cloud, is
\* not changed.
C27_EditReplacesOneImage ==
  [][\A target \in BagToSet(edits), outcome \in Outcomes :
       EditSettles(target, outcome) =>
         /\ IF outcome = "returned"
            THEN /\ Len(generatedImages') = Len(generatedImages)
                 /\ Cardinality({k \in DOMAIN generatedImages :
                                   generatedImages[k].id = target.id}) = 1
                 /\ \A k \in DOMAIN generatedImages :
                      IF generatedImages[k].id = target.id
                      THEN generatedImages'[k] = Image(target.id, "edited")
                      ELSE generatedImages'[k] = generatedImages[k]
                 /\ editingImage' = None
            ELSE /\ generatedImages' = generatedImages
                 /\ editingImage' = editingImage
         /\ isLoading' = FALSE
         /\ usage' = usage
         /\ localStorage' = localStorage
         /\ cloud' = cloud
         /\ writes' = writes]_vars

\* After one edit that failed, the second image of a gallery of two has
\* been edited and the editor is closed.
C27_Witness ==
  /\ generatedImages = <<Image(1, "generated"), Image(2, "edited")>>
  /\ editingImage = None
  /\ uiError = "Refinement failed."
  /\ edits = EmptyBag
  /\ ~isLoading
  /\ usage.count = 2

\* C28: the selected poses are at least one and at most 5, without
\* duplicates; togglePose leaves them as they are when it is called for the
\* only selected pose, for a further pose while 5 are selected, or for a
\* further pose while one more than are selected exceeds the credits that
\* remain of the day.
NoDuplicates(seq) ==
  \A j, k \in DOMAIN seq : seq[j] = seq[k] => j = k
C28_SelectionBounds ==
  /\ [](/\ Len(selectedPoses) >= 1
        /\ Len(selectedPoses) <= MaxSelected
        /\ NoDuplicates(selectedPoses))
  /\ [][\A poseId \in POSES :
          (/\ togglePose(poseId)
           /\ \/ selectedPoses = <<poseId>>
              \/ /\ ~includesPose(selectedPoses, poseId)
                 /\ \/ Len(selectedPoses) = MaxSelected
                    \/ Len(selectedPoses) + 1 > DAILY_LIMIT - usage.count)
          => selectedPoses' = selectedPoses]_vars

\* With two credits spent and three poses selected a fourth has been
\* refused.
C28_Witness ==
  /\ usage.count = 2
  /\ Len(selectedPoses) = 3
  /\ uiError = "Limit reached."

\* C30: analyzeGarment of the key-resolver service rejects with AUTH_ERROR
\* when no usable key is configured, so that the analyze effect shows its
\* message of a missing or invalid key; it rejects with QUOTA_EXCEEDED for
\* a quota error of the provider and with ANALYSIS_FAILED for anything
\* else.
C30_AuthErrorSurfaces ==
  (op = "analyze" /\ variant = "multi" /\ pc = "thrown") =>
    IF calls = <<>>
    THEN /\ thrown = Error({"AUTH_ERROR"})
         /\ AnalyzeEffectMessage(thrown)
              = "Missing or invalid API Key in project settings."
    ELSE IF response.kind = "error" /\ includes(response.error.message, "429")
    THEN thrown = Error({"QUOTA_EXCEEDED"})
    ELSE thrown = Error({"ANALYSIS_FAILED"})

====
